---- MODULE Spec2Model ----
(***************************************************************************)
(* Model of spiderkit's M3U8 downloader                                    *)
(* (src/src/spiderkit/downloader/m3u8_downloader.py): playlist resolution, *)
(* segment path planning, the batch download, the two external ffmpeg      *)
(* processes and the workspace cleanup of M3U8Downloader.download_video.   *)
(***************************************************************************)
EXTENDS Integers, Sequences, FiniteSets, TLC

\* ------------------------------------------------------------------ bounds
MaxSegs == 2          \* longest media playlist
MaxChain == 5         \* longest chain of master playlists before the last node
MaxDepthArg == 5      \* largest max_depth passed to _extract_segment_urls
MaxPlan == 10001      \* most segment URLs handed to the planning comprehension
MaxCalls == 3         \* calls of save_data_to_file in a run
MaxRecs == 2          \* longest list of records given to one call

\* ------------------------------------------------------- program constants
DefaultMaxDepth == 5  \* max_depth: int = 5
PadWidth == 4         \* {idx:04d}

None == "None"

\* ---------------------------------------------------------------- strings
\* A file name is the sequence of its character codes (ASCII).
CodeDot == 46
CodeZero == 48
SegmentPrefix == <<115, 101, 103, 109, 101, 110, 116, 95>>   \* "segment_"
SegmentSuffix == <<46, 116, 115>>                            \* ".ts"

RECURSIVE Digits(_)
\* decimal digits of n >= 0, most significant first, no padding
Digits(n) == IF n < 10 THEN <<CodeZero + n>>
             ELSE Append(Digits(n \div 10), CodeZero + (n % 10))

RECURSIVE Zeros(_)
Zeros(k) == IF k <= 0 THEN <<>> ELSE <<CodeZero>> \o Zeros(k - 1)

ZeroPad3(idx, width) == Zeros((width - 1) - Len(Digits(idx))) \o Digits(idx)

\* format(idx, "0{width}d"): at least width characters, zero filled on the left
ZeroPad(idx, width) == Zeros(width - Len(Digits(idx))) \o Digits(idx)

\* f"segment_{idx:04d}.ts"
SegmentName(idx) == SegmentPrefix \o ZeroPad(idx, PadWidth) \o SegmentSuffix

\* os.path.join(segments_dir, name)
SegmentPath(dir, idx) == [dir |-> dir, name |-> SegmentName(idx)]

RECURSIVE LexLess(_, _)
\* Python's str < str: first differing character decides, a proper prefix is smaller
LexLess(s, t) ==
    IF t = <<>> THEN FALSE
    ELSE IF s = <<>> THEN TRUE
    ELSE IF Head(s) # Head(t) THEN Head(s) < Head(t)
    ELSE LexLess(Tail(s), Tail(t))

\* order of two paths inside the same directory
PathLess(p, q) == p.dir = q.dir /\ LexLess(p.name, q.name)

RECURSIVE ReadInt(_, _)
\* int(digits) read left to right
ReadInt(ds, acc) == IF ds = <<>> THEN acc
                    ELSE ReadInt(Tail(ds), acc * 10 + (Head(ds) - CodeZero))

\* the index a segment file name encodes (between "segment_" and ".ts")
NameIndex(name) ==
    ReadInt(SubSeq(name, Len(SegmentPrefix) + 1, Len(name) - Len(SegmentSuffix)), 0)

\* ------------------------------------------------------------------- URLs
\* A URL is a directory and a file; a reference in a playlist is absolute
\* (carries its own directory) or relative (file only).
PlFile(depth, var) == [kind |-> "pl", depth |-> depth, var |-> var]
SegFile(k) == [kind |-> "seg", depth |-> 0, var |-> k]
Url(dir, file) == [dir |-> dir, file |-> file]
Ref(abs, dir, file) == [abs |-> abs, dir |-> dir, file |-> file]

\* m3u8_url.rsplit("/", 1)[0] + "/"
BaseUri(url) == url.dir

UrlJoinIgnoreBase(base, ref) == Url(ref.dir, ref.file)

\* urllib.parse.urljoin(base, ref)
UrlJoin(base, ref) == IF ref.abs THEN Url(ref.dir, ref.file) ELSE Url(base, ref.file)

EntryUrl == Url(1, PlFile(0, 0))

\* segment references a media playlist may list: relative, absolute on another
\* host, and a second relative one
SegRefs == {Ref(FALSE, 0, SegFile(1)), Ref(TRUE, 2, SegFile(1)), Ref(FALSE, 0, SegFile(2))}

\* the references of the playlists download_video is run on: the same file
\* reached by a relative and by an absolute reference
PipelineSegRefs == {Ref(FALSE, 0, SegFile(1)), Ref(TRUE, 2, SegFile(1))}

RECURSIVE SeqsUpTo(_, _)
SeqsUpTo(S, n) == IF n = 0 THEN {<<>>}
                  ELSE SeqsUpTo(S, n - 1) \cup
                       {Append(s, x) : s \in {t \in SeqsUpTo(S, n - 1) : Len(t) = n - 1}, x \in S}

\* bandwidths of the variants every master playlist of a run lists
BwPatterns == {<<1>>, <<1, 2>>, <<2, 2>>, <<2, 1, 2>>}

Terminals == {"media", "cycle", "noload", "novariant"}

VARIABLES
    entry,          \* which function the caller invoked
    chainLen,       \* number of master playlists before the last node
    terminal,       \* what the node after the chain is
    segRefs,        \* the references the media playlist lists
    bandwidths,     \* stream_info.bandwidth of each variant, document order
    max_depth,      \* argument of _extract_segment_urls
    current_depth,  \* argument of the innermost active call
    m3u8_url,       \* argument of the innermost active call
    rState,         \* "idle" | "running" | "ok" | "error"
    rError,         \* exception leaving _extract_segment_urls
    segment_urls,   \* its return value
    fetched,        \* playlists loaded so far (m3u8.load calls)
    followed,       \* variant index chosen at each master, in order
    temp_directory_arg, \* download_video argument: None or a directory
    cleanup_temp_arg,   \* download_video argument: "None" | "True" | "False"
    config,         \* get_config(): cleanup_temp_files, temp_dir
    temp_directory, \* local variable of download_video
    cleanup_temp,   \* local variable of download_video
    pc,             \* position inside download_video
    fs,             \* the files and directories the operation touches
    download_map,   \* dict path -> url, in insertion order
    completed,      \* download_map positions the fetch engine finished, in completion order
    segment_files,  \* list(download_map.keys())
    concatExit,     \* outcome of the concatenate process
    remuxExit,      \* outcome of the remux process
    mergeExc,       \* exception caught inside _merge_and_convert_segments
    mergeRet,       \* its return value: "None" | "True" | "False"
    exc,            \* exception raised inside download_video's try block
    result,         \* what the caller gets: "running" | "returned" | an exception
    failedAt,       \* first stage whose outcome was a failure
    trace,          \* stages started so far, in order
    planCount,      \* paths planned so far by the planning comprehension
    planPath,       \* destination path planned last (index planCount - 1)
    planMaxPath,    \* lexically greatest path planned before that one
    pre_fs,         \* what was on disk when download_video was called
    ops,            \* two download_video calls in flight: position, root, planned paths
    dirs,           \* workspace roots that exist while those two calls run
    jsonFile,       \* <output_dir>/<filename>.json
    csvFile,        \* <output_dir>/<filename>.csv
    savedJson,      \* every record handed to a json save since the file was last rewritten
    appendOnly,     \* no json save in write mode so far
    lastCall,       \* format, mode and record count of the last save_data_to_file call
    calls           \* save_data_to_file calls so far

rvars == <<entry, chainLen, terminal, segRefs, bandwidths, max_depth, current_depth,
           m3u8_url, rState, rError, segment_urls, fetched, followed>>

dvars == <<temp_directory_arg, cleanup_temp_arg, config, temp_directory, cleanup_temp, pc,
           fs, download_map, completed, segment_files, concatExit, remuxExit, mergeExc,
           mergeRet, exc, result, failedAt, trace>>

pvars == <<planCount, planPath, planMaxPath>>

cvars == <<ops, dirs>>

svars == <<jsonFile, csvFile, savedJson, appendOnly, lastCall, calls>>

ovars == <<pre_fs, cvars, svars>>

vars == <<rvars, dvars, pvars, ovars>>

\* -------------------------------------------------------------- playlists
\* What m3u8.load returns for a URL: the playlist at depth d of the chain.
Variants(d) ==
    [j \in 1..Len(bandwidths) |->
        [uri |-> Ref(FALSE, 0, PlFile(d + 1, j)), bandwidth |-> bandwidths[j]]]

CycleVariants ==
    [j \in 1..Len(bandwidths) |->
        [uri |-> Ref(FALSE, 0, PlFile(0, j)), bandwidth |-> bandwidths[j]]]

Load(url) ==
    LET d == url.file.depth IN
    IF d < chainLen THEN [ok |-> TRUE, is_variant |-> TRUE, playlists |-> Variants(d), segments |-> <<>>]
    ELSE IF terminal = "media" THEN [ok |-> TRUE, is_variant |-> FALSE, playlists |-> <<>>, segments |-> segRefs]
    ELSE IF terminal = "cycle" THEN [ok |-> TRUE, is_variant |-> TRUE, playlists |-> CycleVariants, segments |-> <<>>]
    ELSE IF terminal = "novariant" THEN [ok |-> TRUE, is_variant |-> TRUE, playlists |-> <<>>, segments |-> <<>>]
    ELSE [ok |-> FALSE, is_variant |-> FALSE, playlists |-> <<>>, segments |-> <<>>]

RECURSIVE MaxFromLast(_, _, _)
MaxFromLast(ps, i, best) ==
    IF i > Len(ps) THEN best
    ELSE MaxFromLast(ps, i + 1, IF ps[i].bandwidth >= ps[best].bandwidth THEN i ELSE best)

MaxIndexLast(ps) == MaxFromLast(ps, 2, 1)

RECURSIVE MaxFrom(_, _, _)
\* the loop of max(): an element replaces the best so far only when its key is
\* strictly greater
MaxFrom(ps, i, best) ==
    IF i > Len(ps) THEN best
    ELSE MaxFrom(ps, i + 1, IF ps[i].bandwidth > ps[best].bandwidth THEN i ELSE best)

\* max(playlists, key=lambda p: p.stream_info.bandwidth), as a position
MaxIndex(ps) == MaxFrom(ps, 2, 1)

DepthExceededOff(depth, maxd) == depth > maxd

\* if current_depth >= max_depth: raise RecursionError
DepthExceeded(depth, maxd) == depth >= maxd

\* One activation of _extract_segment_urls: the depth guard, the load, and
\* either the recursive call (next activation) or the return of the URLs.
ExtractStep ==
    /\ rState = "running"
    /\ IF DepthExceeded(current_depth, max_depth)
       THEN /\ rState' = "error"
            /\ rError' = "RecursionError"
            /\ UNCHANGED <<current_depth, m3u8_url, segment_urls, fetched, followed>>
       ELSE LET playlist == Load(m3u8_url)
                base_uri == BaseUri(m3u8_url)
            IN  /\ fetched' = fetched + 1
                /\ IF ~playlist.ok
                   THEN /\ rState' = "error"
                        /\ rError' = "LoadError"
                        /\ UNCHANGED <<current_depth, m3u8_url, segment_urls, followed>>
                   ELSE IF playlist.is_variant
                   THEN IF Len(playlist.playlists) = 0
                        THEN /\ rState' = "error"
                             /\ rError' = "ValueError"
                             /\ UNCHANGED <<current_depth, m3u8_url, segment_urls, followed>>
                        ELSE LET j == MaxIndex(playlist.playlists) IN
                             /\ m3u8_url' = UrlJoin(base_uri, playlist.playlists[j].uri)
                             /\ current_depth' = current_depth + 1
                             /\ followed' = Append(followed, j)
                             /\ UNCHANGED <<rState, rError, segment_urls>>
                   ELSE /\ segment_urls' =
                              [i \in 1..Len(playlist.segments) |-> UrlJoin(base_uri, playlist.segments[i])]
                        /\ rState' = "ok"
                        /\ UNCHANGED <<current_depth, m3u8_url, rError, followed>>
    /\ UNCHANGED <<entry, chainLen, terminal, segRefs, bandwidths, max_depth>>
    /\ UNCHANGED <<dvars, pvars>>
    /\ UNCHANGED ovars

\* ------------------------------------------------------------ file system
SegmentsDir(tmp) == <<tmp, "ts_segments">>

\* os.path.join(temp_directory, "merged_video.ts")
MergedPath(tmp) == [dir |-> <<tmp>>, name |-> "merged_video.ts"]

\* the directory the caller passes is a relative path; mkdtemp and the
\* configured directory are absolute
IsAbsDir(dir) == Head(dir) # "given"

\* os.path.abspath(path): a relative path is prefixed with the working directory
AbsPath(p) == IF IsAbsDir(p.dir) THEN p ELSE [p EXCEPT !.dir = <<"cwd">> \o p.dir]

\* f"file '{os.path.abspath(file_path)}'\n"
ManifestLine(p) == [directive |-> "file", quoted |-> AbsPath(p)]

NoManifest == [exists |-> FALSE, lines |-> <<>>]

RmTreeOwnFiles(f) == [f EXCEPT !.root = f.foreign, !.segs_dir = FALSE,
                               !.seg_files = {}, !.manifest = NoManifest, !.merged = FALSE]

\* shutil.rmtree(temp_directory): the root and everything under it is gone
RmTree(f) == [f EXCEPT !.root = FALSE, !.foreign = FALSE, !.segs_dir = FALSE,
                       !.seg_files = {}, !.manifest = NoManifest, !.merged = FALSE]

\* ---------------------------------------------------------------- the dict
HasKey(d, k) == \E i \in 1..Len(d) : d[i].key = k

\* d[k] = v: a new key goes last, an existing key keeps its position
DictSet(d, k, v) ==
    IF HasKey(d, k)
    THEN [i \in 1..Len(d) |-> IF d[i].key = k THEN [key |-> k, value |-> v] ELSE d[i]]
    ELSE Append(d, [key |-> k, value |-> v])

DictGet(d, k) == LET i == CHOOSE i \in 1..Len(d) : d[i].key = k IN d[i].value

\* list(d.keys())
Keys(d) == [i \in 1..Len(d) |-> d[i].key]

RECURSIVE BuildMapFrom(_, _, _, _)
BuildMapFrom(dir, urls, idx, acc) ==
    IF idx >= Len(urls) THEN acc
    ELSE BuildMapFrom(dir, urls, idx + 1, DictSet(acc, SegmentPath(dir, idx), urls[idx + 1]))

RECURSIVE BuildMapDedup(_, _, _, _)
BuildMapDedup(dir, urls, idx, acc) ==
    IF idx >= Len(urls) THEN acc
    ELSE IF \E i \in 1..Len(acc) : acc[i].value = urls[idx + 1]
    THEN BuildMapDedup(dir, urls, idx + 1, acc)
    ELSE BuildMapDedup(dir, urls, idx + 1, DictSet(acc, SegmentPath(dir, idx), urls[idx + 1]))

DownloadMapDedup(dir, urls) == BuildMapDedup(dir, urls, 0, <<>>)

\* {os.path.join(segments_dir, f"segment_{idx:04d}.ts"): url for idx, url in enumerate(segment_urls)}
DownloadMap(dir, urls) == BuildMapFrom(dir, urls, 0, <<>>)

\* ---------------------------------------------------------- download_video
Log(e) == trace' = Append(trace, e)

Fail(stage) == failedAt' = IF failedAt = None THEN stage ELSE failedAt

PrepOutcomes == {"ok", "config_error", "mkdtemp_error", "makedirs_root_error",
                 "makedirs_segs_error", "makedirs_out_error"}

\* lines 132-146: configuration defaults and the workspace directories
Prepare ==
    /\ entry = "download_video"
    /\ pc = "start"
    /\ Log("prepare")
    /\ \E o \in PrepOutcomes :
        LET flag == IF cleanup_temp_arg = None
                    THEN (IF config.cleanup_temp_files THEN "True" ELSE "False")
                    ELSE cleanup_temp_arg
            tmp == IF temp_directory_arg = None
                   THEN (IF config.temp_dir # None THEN config.temp_dir ELSE "mkdtemp")
                   ELSE temp_directory_arg
        IN
        IF o = "config_error"
        THEN \* get_config() raises: both locals still hold the arguments
             /\ exc' = "ConfigError"
             /\ UNCHANGED <<cleanup_temp, temp_directory, fs>>
             /\ Fail("prepare")
             /\ pc' = "cleanup"
        ELSE
        /\ cleanup_temp' = flag
        /\ IF o = "mkdtemp_error"
           THEN /\ temp_directory_arg = None /\ config.temp_dir = None
                /\ exc' = "OSError"
                /\ UNCHANGED <<temp_directory, fs>>
                /\ Fail("prepare")
                /\ pc' = "cleanup"
           ELSE
           /\ temp_directory' = tmp
           /\ IF o = "makedirs_root_error"
              THEN /\ temp_directory_arg # None /\ ~fs.root
                   /\ exc' = "OSError"
                   /\ UNCHANGED fs
                   /\ Fail("prepare")
                   /\ pc' = "cleanup"
              ELSE LET made == IF tmp = "cfgdir" THEN fs ELSE [fs EXCEPT !.root = TRUE] IN
              IF o = "makedirs_segs_error"
              THEN /\ fs' = made
                   /\ exc' = "OSError"
                   /\ Fail("prepare")
                   /\ pc' = "cleanup"
              ELSE /\ fs' = [made EXCEPT !.root = TRUE, !.segs_dir = TRUE]
                   /\ IF o = "makedirs_out_error"
                      THEN /\ exc' = "OSError"
                           /\ Fail("prepare")
                           /\ pc' = "cleanup"
                      ELSE /\ UNCHANGED <<exc, failedAt>>
                           /\ pc' = "resolve"
    /\ UNCHANGED <<temp_directory_arg, cleanup_temp_arg, config, download_map, completed,
                   segment_files, concatExit, remuxExit, mergeExc, mergeRet, result>>
    /\ UNCHANGED <<rvars, pvars>>
    /\ UNCHANGED ovars

\* line 149: self._extract_segment_urls(m3u8_url), max_depth left at its default
ExtractCall ==
    /\ pc = "resolve"
    /\ rState = "idle"
    /\ rState' = "running"
    /\ max_depth' = DefaultMaxDepth
    /\ current_depth' = 0
    /\ m3u8_url' = EntryUrl
    /\ Log("resolve")
    /\ UNCHANGED <<entry, chainLen, terminal, segRefs, bandwidths, rError, segment_urls,
                   fetched, followed>>
    /\ UNCHANGED <<temp_directory_arg, cleanup_temp_arg, config, temp_directory, cleanup_temp,
                   pc, fs, download_map, completed, segment_files, concatExit, remuxExit,
                   mergeExc, mergeRet, exc, result, failedAt>>
    /\ UNCHANGED pvars
    /\ UNCHANGED ovars

\* lines 149-153: the resolver returned or raised; on success the download map
\* is built and handed to download_files
Plan ==
    /\ pc = "resolve"
    /\ rState \in {"ok", "error"}
    /\ IF rState = "error"
       THEN /\ exc' = rError
            /\ Fail("resolve")
            /\ pc' = "cleanup"
            /\ UNCHANGED <<download_map, trace>>
       ELSE /\ download_map' = DownloadMap(SegmentsDir(temp_directory), segment_urls)
            /\ Log("download")
            /\ pc' = "download"
            /\ UNCHANGED <<exc, failedAt>>
    /\ UNCHANGED <<temp_directory_arg, cleanup_temp_arg, config, temp_directory, cleanup_temp,
                   fs, completed, segment_files, concatExit, remuxExit, mergeExc, mergeRet,
                   result>>
    /\ UNCHANGED <<rvars, pvars>>
    /\ UNCHANGED ovars

\* the fetch engine finishes one transfer, in any order: the destination file
\* is written, or the transfer is given up
FetchOne ==
    /\ pc = "download"
    /\ \E i \in 1..Len(download_map) :
        /\ \A k \in 1..Len(completed) : completed[k] # i
        /\ completed' = Append(completed, i)
        /\ \E written \in BOOLEAN :
            fs' = IF written
                  THEN [fs EXCEPT !.seg_files = @ \cup {download_map[i].key}]
                  ELSE fs
    /\ UNCHANGED <<temp_directory_arg, cleanup_temp_arg, config, temp_directory, cleanup_temp,
                   pc, download_map, segment_files, concatExit, remuxExit, mergeExc, mergeRet,
                   exc, result, failedAt, trace>>
    /\ UNCHANGED <<rvars, pvars>>
    /\ UNCHANGED ovars

\* download_files raises
FetchRaise ==
    /\ pc = "download"
    /\ exc' = "DownloadError"
    /\ Fail("download")
    /\ pc' = "cleanup"
    /\ UNCHANGED <<temp_directory_arg, cleanup_temp_arg, config, temp_directory, cleanup_temp,
                   fs, download_map, completed, segment_files, concatExit, remuxExit, mergeExc,
                   mergeRet, result, trace>>
    /\ UNCHANGED <<rvars, pvars>>
    /\ UNCHANGED ovars

\* lines 153-159: download_files returns; the key list is taken and
\* _merge_and_convert_segments is called
FetchReturn ==
    /\ pc = "download"
    /\ Len(completed) = Len(download_map)
    /\ segment_files' = Keys(download_map)
    /\ pc' = "merge_manifest"
    /\ UNCHANGED <<temp_directory_arg, cleanup_temp_arg, config, temp_directory, cleanup_temp,
                   fs, download_map, completed, concatExit, remuxExit, mergeExc, mergeRet,
                   exc, result, failedAt, trace>>
    /\ UNCHANGED <<rvars, pvars>>
    /\ UNCHANGED ovars

CheckIgnored(exit) == FALSE

\* subprocess.run(..., check=True): a non-zero return code raises CalledProcessError
CheckRaises(exit) == exit # "0"

ExitOutcomes == {"0", "nonzero", "spawn_error"}

\* lines 93-97: the manifest is opened for writing and one line per path written
WriteManifest ==
    /\ pc = "merge_manifest"
    /\ Log("concat")
    /\ LET lines == [i \in 1..Len(segment_files) |-> ManifestLine(segment_files[i])] IN
       \/ /\ fs' = [fs EXCEPT !.manifest = [exists |-> TRUE, lines |-> lines]]
          /\ pc' = "merge_concat"
          /\ UNCHANGED <<mergeExc, failedAt>>
       \/ \* open() fails: nothing was created
          /\ mergeExc' = "OSError"
          /\ Fail("concat")
          /\ pc' = "merge_finally"
          /\ UNCHANGED fs
       \/ \* a write fails after k lines: the file is there, truncated
          /\ \E k \in 0..(Len(lines) - 1) :
                fs' = [fs EXCEPT !.manifest = [exists |-> TRUE, lines |-> SubSeq(lines, 1, k)]]
          /\ mergeExc' = "OSError"
          /\ Fail("concat")
          /\ pc' = "merge_finally"
    /\ UNCHANGED <<temp_directory_arg, cleanup_temp_arg, config, temp_directory, cleanup_temp,
                   download_map, completed, segment_files, concatExit, remuxExit, mergeRet,
                   exc, result>>
    /\ UNCHANGED <<rvars, pvars>>
    /\ UNCHANGED ovars

\* lines 99-101: ffmpeg -f concat reads the manifest and writes the intermediate
\* container; it cannot exit with 0 when a listed file is missing, and any
\* other combination of exit status and output written is allowed
Concat ==
    /\ pc = "merge_concat"
    /\ \E e \in ExitOutcomes :
        /\ e = "0" => \A i \in 1..Len(fs.manifest.lines) :
                          \E f \in fs.seg_files : AbsPath(f) = fs.manifest.lines[i].quoted
        /\ concatExit' = e
        /\ \E wrote \in BOOLEAN :
            /\ e = "0" => wrote
            /\ e = "spawn_error" => ~wrote
            /\ fs' = IF wrote THEN [fs EXCEPT !.merged = TRUE] ELSE fs
        /\ IF e = "spawn_error"
           THEN /\ mergeExc' = "FileNotFoundError"
                /\ pc' = "merge_finally"
           ELSE IF CheckRaises(e)
           THEN /\ mergeExc' = "CalledProcessError"
                /\ pc' = "merge_finally"
           ELSE /\ pc' = "merge_remux"
                /\ UNCHANGED mergeExc
        /\ IF e = "0" THEN UNCHANGED failedAt ELSE Fail("concat")
    /\ UNCHANGED <<temp_directory_arg, cleanup_temp_arg, config, temp_directory, cleanup_temp,
                   download_map, completed, segment_files, remuxExit, mergeRet, exc, result,
                   trace>>
    /\ UNCHANGED <<rvars, pvars>>
    /\ UNCHANGED ovars

\* lines 103-105: ffmpeg -y -i intermediate ... final_output_path
Remux ==
    /\ pc = "merge_remux"
    /\ Log("remux")
    /\ \E e \in ExitOutcomes :
        /\ remuxExit' = e
        /\ \E wrote \in BOOLEAN :
            /\ e = "0" => wrote
            /\ e = "spawn_error" => ~wrote
            /\ fs' = IF ~wrote THEN fs
                     ELSE [fs EXCEPT !.output = IF e = "0" THEN "complete" ELSE "partial"]
        /\ IF e = "spawn_error"
           THEN mergeExc' = "FileNotFoundError"
           ELSE IF CheckRaises(e)
           THEN mergeExc' = "CalledProcessError"
           ELSE UNCHANGED mergeExc
        /\ IF e = "0" THEN UNCHANGED failedAt ELSE Fail("remux")
    /\ pc' = "merge_finally"
    /\ UNCHANGED <<temp_directory_arg, cleanup_temp_arg, config, temp_directory, cleanup_temp,
                   download_map, completed, segment_files, concatExit, mergeRet, exc, result>>
    /\ UNCHANGED <<rvars, pvars>>
    /\ UNCHANGED ovars

OsRemoveWithIntermediate(f) == [f EXCEPT !.manifest = NoManifest, !.merged = FALSE]

\* os.remove(file_list_path)
OsRemove(f) == [f EXCEPT !.manifest = NoManifest]

FinallyRemovesOnSuccess(caught, exists) == exists /\ caught = None

\* lines 112-114: finally: if os.path.exists(file_list_path): os.remove(...)
FinallyRemoves(caught, exists) == exists

\* lines 107-114 and 159-162: return True, or except: return False; the finally
\* clause; then download_video raises RuntimeError unless the result is True
MergeReturn ==
    /\ pc = "merge_finally"
    /\ LET ret == IF mergeExc = None THEN "True" ELSE "False" IN
       \/ /\ fs' = IF FinallyRemoves(mergeExc, fs.manifest.exists)
                   THEN OsRemove(fs) ELSE fs
          /\ mergeRet' = ret
          /\ exc' = IF ret = "True" THEN None ELSE "RuntimeError"
          /\ UNCHANGED failedAt
       \/ \* os.remove raises: the exception replaces the return value
          /\ FinallyRemoves(mergeExc, fs.manifest.exists)
          /\ exc' = "OSError_remove"
          /\ Fail("unlink")
          /\ UNCHANGED <<fs, mergeRet>>
    /\ pc' = "cleanup"
    /\ UNCHANGED <<temp_directory_arg, cleanup_temp_arg, config, temp_directory, cleanup_temp,
                   download_map, completed, segment_files, concatExit, remuxExit, mergeExc,
                   result, trace>>
    /\ UNCHANGED <<rvars, pvars>>
    /\ UNCHANGED ovars

CleanupOnSuccessOnly(flag, raised) == flag = "True" /\ raised = None

\* line 169: `if cleanup_temp and ...`, whatever was raised before
CleanupDue(flag, raised) == flag = "True"

\* lines 165-171: except: log and re-raise; finally: remove the workspace
Cleanup ==
    /\ pc = "cleanup"
    /\ Log("cleanup")
    /\ LET outcome == IF exc = None THEN "returned" ELSE exc IN
       IF CleanupDue(cleanup_temp, exc)
       THEN IF temp_directory = None
            THEN \* os.path.exists(None) raises TypeError
                 /\ result' = "TypeError"
                 /\ UNCHANGED fs
            ELSE IF fs.root
            THEN \/ /\ fs' = RmTree(fs)
                    /\ result' = outcome
                 \/ \* shutil.rmtree raises inside the finally clause
                    /\ result' = "OSError_rmtree"
                    /\ UNCHANGED fs
            ELSE /\ result' = outcome
                 /\ UNCHANGED fs
       ELSE /\ result' = outcome
            /\ UNCHANGED fs
    /\ pc' = "done"
    /\ UNCHANGED <<temp_directory_arg, cleanup_temp_arg, config, temp_directory, cleanup_temp,
                   download_map, completed, segment_files, concatExit, remuxExit, mergeExc,
                   mergeRet, exc, failedAt>>
    /\ UNCHANGED <<rvars, pvars>>
    /\ UNCHANGED ovars

\* ----------------------------------------------------------------- planning
PlanDir == SegmentsDir("mkdtemp")

NoPath == [dir |-> PlanDir, name |-> <<>>]

\* one iteration of the comprehension of line 150 over a long URL list
PlanOne ==
    /\ entry = "plan"
    /\ planCount < MaxPlan
    /\ planPath' = SegmentPath(PlanDir, planCount)
    /\ planMaxPath' = IF planCount = 0 THEN NoPath
                      ELSE IF PathLess(planMaxPath, planPath) THEN planPath ELSE planMaxPath
    /\ planCount' = planCount + 1
    /\ UNCHANGED <<rvars, dvars>>
    /\ UNCHANGED ovars

\* ------------------------------------------------------------ initial states
InitWeb(refs) ==
    /\ chainLen \in 0..MaxChain
    /\ terminal \in Terminals
    /\ segRefs \in (IF terminal = "media" THEN SeqsUpTo(refs, MaxSegs) ELSE {<<>>})

InitResolverIdle ==
    /\ max_depth = DefaultMaxDepth
    /\ current_depth = 0
    /\ m3u8_url = EntryUrl
    /\ rState = "idle"
    /\ rError = None
    /\ segment_urls = <<>>
    /\ fetched = 0
    /\ followed = <<>>

InitLocals ==
    /\ temp_directory = temp_directory_arg
    /\ cleanup_temp = cleanup_temp_arg
    /\ pc = "start"
    /\ download_map = <<>>
    /\ completed = <<>>
    /\ segment_files = <<>>
    /\ concatExit = None
    /\ remuxExit = None
    /\ mergeExc = None
    /\ mergeRet = None
    /\ exc = None
    /\ result = "running"
    /\ failedAt = None
    /\ trace = <<>>

EmptyFs == [root |-> FALSE, foreign |-> FALSE, segs_dir |-> FALSE, seg_files |-> {},
            manifest |-> NoManifest, merged |-> FALSE, output |-> "absent"]

InitPlanIdle ==
    /\ planCount = 0
    /\ planPath = NoPath
    /\ planMaxPath = NoPath

NoJson == [exists |-> FALSE, kind |-> "none", recs |-> <<>>]

NoCsv == [exists |-> FALSE, rows |-> <<>>]

NoCall == [format |-> None, mode |-> None, count |-> 0]

InitOpsIdle ==
    /\ ops = [o \in {1, 2} |-> [pc |-> "idle", root |-> None, paths |-> {}, cleanup |-> FALSE]]
    /\ dirs = {}

InitStorageIdle ==
    /\ jsonFile = NoJson
    /\ csvFile = NoCsv
    /\ savedJson = <<>>
    /\ appendOnly = TRUE
    /\ lastCall = NoCall
    /\ calls = 0

\* download_video(m3u8_url, output_path, temp_directory, cleanup_temp)
Init ==
    /\ entry = "download_video"
    /\ InitWeb(PipelineSegRefs)
    /\ bandwidths = <<1, 2>>
    /\ InitResolverIdle
    /\ temp_directory_arg \in {None, "given"}
    /\ cleanup_temp_arg \in {"None", "True", "False"}
    /\ config \in [cleanup_temp_files : BOOLEAN, temp_dir : {None, "cfgdir"}]
    \* a configuration value the call never reads is left at its default
    /\ cleanup_temp_arg # None => ~config.cleanup_temp_files
    /\ temp_directory_arg # None => config.temp_dir = None
    /\ \E pre \in BOOLEAN, old \in BOOLEAN, out \in {"absent", "stale"} :
          /\ pre => (temp_directory_arg # None \/ config.temp_dir # None)
          /\ old => pre
          /\ fs = [EmptyFs EXCEPT !.root = pre, !.foreign = old, !.output = out]
    /\ InitLocals
    /\ InitPlanIdle
    /\ pre_fs = fs
    /\ InitOpsIdle
    /\ InitStorageIdle

Next ==
    \/ Prepare
    \/ ExtractCall
    \/ ExtractStep
    \/ Plan
    \/ FetchOne
    \/ FetchRaise
    \/ FetchReturn
    \/ WriteManifest
    \/ Concat
    \/ Remux
    \/ MergeReturn
    \/ Cleanup

Spec == Init /\ [][Next]_vars

\* _extract_segment_urls(url, max_depth) called directly
InitResolve ==
    /\ entry = "_extract_segment_urls"
    /\ InitWeb(SegRefs)
    /\ bandwidths \in BwPatterns
    /\ max_depth \in 0..MaxDepthArg
    /\ current_depth = 0
    /\ m3u8_url = EntryUrl
    /\ rState = "running"
    /\ rError = None
    /\ segment_urls = <<>>
    /\ fetched = 0
    /\ followed = <<>>
    /\ temp_directory_arg = None
    /\ cleanup_temp_arg = "None"
    /\ config = [cleanup_temp_files |-> FALSE, temp_dir |-> None]
    /\ fs = EmptyFs
    /\ InitLocals
    /\ InitPlanIdle
    /\ pre_fs = EmptyFs
    /\ InitOpsIdle
    /\ InitStorageIdle

NextResolve == ExtractStep

SpecResolve == InitResolve /\ [][NextResolve]_vars

\* the interpreter keeps running the call it has started
SpecResolveFair == SpecResolve /\ WF_vars(ExtractStep)

\* the planning comprehension applied to MaxPlan URLs
InitPlan ==
    /\ entry = "plan"
    /\ chainLen = 0
    /\ terminal = "media"
    /\ segRefs = <<>>
    /\ bandwidths = <<1>>
    /\ InitResolverIdle
    /\ temp_directory_arg = None
    /\ cleanup_temp_arg = "None"
    /\ config = [cleanup_temp_files |-> FALSE, temp_dir |-> None]
    /\ fs = EmptyFs
    /\ InitLocals
    /\ InitPlanIdle
    /\ pre_fs = EmptyFs
    /\ InitOpsIdle
    /\ InitStorageIdle

NextPlan == PlanOne

SpecPlan == InitPlan /\ [][NextPlan]_vars

\* ------------------------------------------------- two calls at the same time
\* names tempfile.mkdtemp(prefix="m3u8_download_") can return
TmpNames == {"m3u8_download_a", "m3u8_download_b", "m3u8_download_c"}

\* lines 136-139: the directory asked for, else config.temp_dir, else a new
\* directory made by mkdtemp
WorkspaceRoot(arg, cfgdir, fresh) ==
    IF arg # None THEN arg ELSE IF cfgdir # None THEN cfgdir ELSE fresh

\* lines 132-142 of a call made without temp_directory; mkdtemp creates a
\* directory that did not exist
OpPrepare(o) ==
    /\ entry = "concurrent"
    /\ ops[o].pc = "start"
    /\ \E fresh \in TmpNames \ dirs, flag \in BOOLEAN :
        LET root == WorkspaceRoot(None, config.temp_dir, fresh) IN
        /\ ops' = [ops EXCEPT ![o] = [pc |-> "prepared", root |-> root, paths |-> {},
                                      cleanup |-> flag]]
        /\ dirs' = dirs \cup {root}
    /\ UNCHANGED <<rvars, dvars, pvars, pre_fs, svars>>

\* line 150 for a playlist of n segments
OpPlan(o) ==
    /\ ops[o].pc = "prepared"
    /\ \E n \in 0..MaxSegs :
        ops' = [ops EXCEPT ![o].pc = "planned",
                           ![o].paths = {SegmentPath(SegmentsDir(ops[o].root), i) : i \in 0..(n - 1)}]
    /\ UNCHANGED dirs
    /\ UNCHANGED <<rvars, dvars, pvars, pre_fs, svars>>

\* lines 168-171, after the pipeline has succeeded or failed
OpCleanup(o) ==
    /\ ops[o].pc \in {"prepared", "planned"}
    /\ dirs' = IF CleanupDue(IF ops[o].cleanup THEN "True" ELSE "False", None)
                  /\ ops[o].root \in dirs
               THEN dirs \ {ops[o].root} ELSE dirs
    /\ ops' = [ops EXCEPT ![o].pc = "done"]
    /\ UNCHANGED <<rvars, dvars, pvars, pre_fs, svars>>

\* two download_video calls without temp_directory, interleaved
InitConcurrent ==
    /\ entry = "concurrent"
    /\ chainLen = 0
    /\ terminal = "media"
    /\ segRefs = <<>>
    /\ bandwidths = <<1>>
    /\ InitResolverIdle
    /\ temp_directory_arg = None
    /\ cleanup_temp_arg = "None"
    /\ config \in [cleanup_temp_files : {FALSE}, temp_dir : {None, "cfgdir"}]
    /\ fs = EmptyFs
    /\ InitLocals
    /\ InitPlanIdle
    /\ pre_fs = EmptyFs
    /\ ops = [o \in {1, 2} |-> [pc |-> "start", root |-> None, paths |-> {}, cleanup |-> FALSE]]
    /\ dirs \in {{}, {"cfgdir"}}
    /\ InitStorageIdle

NextConcurrent == \E o \in {1, 2} : OpPrepare(o) \/ OpPlan(o) \/ OpCleanup(o)

SpecConcurrent == InitConcurrent /\ [][NextConcurrent]_vars

\* ---------------------------------------------------------------- file storage
\* records of one key; a dict is a sequence of key/value pairs in insertion order
Rec(v) == <<[key |-> "k", value |-> v]>>

Recs == {Rec("1"), Rec("2")}

\* the data argument: a single dict, or a list of dicts
DictData(d) == [isdict |-> TRUE, items |-> <<d>>]

ListData(l) == [isdict |-> FALSE, items |-> l]

DataArgs ==
    {DictData(d) : d \in Recs \cup {<<>>}} \cup {ListData(l) : l \in SeqsUpTo(Recs, MaxRecs)}

Modes == {"w", "a"}

\* `not data`: an empty dict or an empty list
NotData(data) == IF data.isdict THEN data.items[1] = <<>> ELSE data.items = <<>>

\* _normalize_records
NormalizeRecords(data) == data.items

\* _record_count
RecordCount(data) == IF data.isdict THEN 1 ELSE Len(data.items)

\* csv.DictWriter.writeheader and writerows
HeaderRow(fieldnames) == [kind |-> "header", cells |-> fieldnames]

RecordRow(fieldnames, rec) ==
    [kind |-> "record", cells |-> [i \in 1..Len(fieldnames) |-> DictGet(rec, fieldnames[i])]]

WritesHeaderAlways(mode, file_exists) == TRUE

\* line 115
WritesHeader(mode, file_exists) == mode = "w" \/ ~file_exists

\* _save_csv: the file after the call
SaveCsv(file, records, mode) ==
    LET file_exists == file.exists /\ file.rows # <<>>
        opened      == IF mode = "w" THEN <<>> ELSE file.rows
        fieldnames  == Keys(records[1])
        header      == IF WritesHeader(mode, file_exists)
                       THEN <<HeaderRow(fieldnames)>> ELSE <<>>
        rows        == [i \in 1..Len(records) |-> RecordRow(fieldnames, records[i])]
    IN [exists |-> TRUE, rows |-> opened \o header \o rows]

\* json.dump of a dict or of a list
JsonDump(isdict, items) ==
    [exists |-> TRUE, kind |-> IF isdict THEN "dict" ELSE "list", recs |-> items]

\* _save_json: the file after the call
SaveJson(file, data, mode) ==
    IF mode = "a" /\ file.exists /\ file.kind # "none" /\ file.kind = "list"
    THEN JsonDump(FALSE, file.recs \o data.items)
    ELSE JsonDump(data.isdict, data.items)

\* save_data_to_file with nothing to save: lines 33-35
SaveNothing ==
    /\ entry = "save_data_to_file"
    /\ calls < MaxCalls
    /\ \E data \in DataArgs :
        /\ NotData(data)
        /\ lastCall' = NoCall
    /\ calls' = calls + 1
    /\ UNCHANGED <<jsonFile, csvFile, savedJson, appendOnly>>
    /\ UNCHANGED <<rvars, dvars, pvars, pre_fs, cvars>>

\* save_data_to_file(data, filename, "csv", mode=mode)
SaveCsvCall ==
    /\ entry = "save_data_to_file"
    /\ calls < MaxCalls
    /\ \E data \in DataArgs, mode \in Modes :
        /\ ~NotData(data)
        /\ csvFile' = SaveCsv(csvFile, NormalizeRecords(data), mode)
        /\ lastCall' = [format |-> "csv", mode |-> mode, count |-> RecordCount(data)]
    /\ calls' = calls + 1
    /\ UNCHANGED <<jsonFile, savedJson, appendOnly>>
    /\ UNCHANGED <<rvars, dvars, pvars, pre_fs, cvars>>

\* save_data_to_file(data, filename, "json", mode=mode)
SaveJsonCall ==
    /\ entry = "save_data_to_file"
    /\ calls < MaxCalls
    /\ \E data \in DataArgs, mode \in Modes :
        /\ ~NotData(data)
        /\ jsonFile' = SaveJson(jsonFile, data, mode)
        /\ savedJson' = (IF mode = "a" THEN savedJson ELSE <<>>) \o data.items
        /\ appendOnly' = (appendOnly /\ mode = "a")
        /\ lastCall' = [format |-> "json", mode |-> mode, count |-> RecordCount(data)]
    /\ calls' = calls + 1
    /\ UNCHANGED csvFile
    /\ UNCHANGED <<rvars, dvars, pvars, pre_fs, cvars>>

\* calls of save_data_to_file on one file name; the csv file is missing or empty
InitStorage ==
    /\ entry = "save_data_to_file"
    /\ chainLen = 0
    /\ terminal = "media"
    /\ segRefs = <<>>
    /\ bandwidths = <<1>>
    /\ InitResolverIdle
    /\ temp_directory_arg = None
    /\ cleanup_temp_arg = "None"
    /\ config = [cleanup_temp_files |-> FALSE, temp_dir |-> None]
    /\ fs = EmptyFs
    /\ InitLocals
    /\ InitPlanIdle
    /\ pre_fs = EmptyFs
    /\ InitOpsIdle
    /\ jsonFile = NoJson
    /\ csvFile \in {NoCsv, [exists |-> TRUE, rows |-> <<>>]}
    /\ savedJson = <<>>
    /\ appendOnly = TRUE
    /\ lastCall = NoCall
    /\ calls = 0

NextStorage == SaveNothing \/ SaveCsvCall \/ SaveJsonCall

SpecStorage == InitStorage /\ [][NextStorage]_vars

\* ------------------------------------------------------------------ claims
Done == pc = "done"

InTrace(e) == \E k \in 1..Len(trace) : trace[k] = e

Occurrences(e) == Cardinality({k \in 1..Len(trace) : trace[k] = e})

ForwardStages == {"prepare", "resolve", "download", "concat", "remux"}

\* position of a stage in the pipeline; the manifest removal belongs to the
\* merge/convert call and follows the remux
StageRank(st) == CASE st = "prepare" -> 1 [] st = "resolve" -> 2 [] st = "download" -> 3
                   [] st = "concat" -> 4 [] st = "remux" -> 5 [] st = "unlink" -> 5
                   [] OTHER -> 6

C2_FailureSkipsToCleanup ==
    /\ failedAt # None =>
          \A k \in 1..Len(trace) :
              trace[k] \in ForwardStages => StageRank(trace[k]) <= StageRank(failedAt)
    /\ Done => (Occurrences("cleanup") = 1 /\ trace[Len(trace)] = "cleanup")
    /\ ~Done => (result = "running" /\ ~InTrace("cleanup"))
    /\ (Done /\ failedAt # None) => result # "returned"

C2_Witness ==
    /\ Done /\ failedAt = "download" /\ result = "DownloadError"
    /\ trace = <<"prepare", "resolve", "download", "cleanup">>

\* the planned destination files that do not exist
Missing == {i \in 1..Len(download_map) : download_map[i].key \notin fs.seg_files}

\* C3: when download_files has returned and a planned file is missing,
\* download_video fails with DownloadIncomplete and neither the concatenate
\* step nor the remux step is invoked.
C3_Original ==
    (pc \in {"merge_manifest", "merge_concat", "merge_remux", "merge_finally", "cleanup"}
        /\ Len(completed) = Len(download_map) /\ segment_files = Keys(download_map)
        /\ Missing # {})
    => (exc = "DownloadIncomplete" /\ ~InTrace("concat") /\ ~InTrace("remux"))

\* C4: when a stage of download_video has failed and no file was at the output
\* path before the call, no file is at the output path when the call is over.
C4_Original ==
    (Done /\ failedAt \in ForwardStages /\ result # "returned" /\ fs.output # "stale")
        => fs.output = "absent"

\* C5 as stated: the resolver ends with the recursion-depth error iff the walk
\* arrives at depth == max_depth and the playlist there is still a master; a
\* media playlist at depth d <= max_depth is returned.
C5_Original ==
    rState \in {"ok", "error"} =>
        /\ (rError = "RecursionError") <=>
              (max_depth < chainLen \/ terminal = "cycle"
                  \/ (max_depth = chainLen /\ terminal = "novariant"))
        /\ (terminal = "media" /\ chainLen <= max_depth) => rState = "ok"

\* C5 amended: the resolver ends with the recursion-depth error iff the walk
\* arrives at depth == max_depth, whatever playlist is there (it is not loaded);
\* a media playlist at depth d < max_depth is returned, one URL per segment.
C5_DepthError ==
    rState \in {"ok", "error"} =>
        /\ (rError = "RecursionError") <=> (max_depth <= chainLen \/ terminal = "cycle")
        /\ rError = "RecursionError" => (current_depth = max_depth /\ fetched = max_depth)
        /\ (terminal = "media" /\ chainLen < max_depth) =>
              (rState = "ok" /\ Len(segment_urls) = Len(segRefs))

C5_Witness ==
    /\ entry = "_extract_segment_urls"
    /\ chainLen = 1 /\ terminal = "media" /\ max_depth = 1
    /\ rState = "error" /\ rError = "RecursionError" /\ fetched = 1

\* C6 as stated: for every number of URLs each planned path is distinct from the
\* earlier ones and lexically greater than all of them.
C6_Original ==
    planCount >= 2 =>
        (NameIndex(planPath.name) = planCount - 1 /\ PathLess(planMaxPath, planPath))

\* C6 amended: every planned path encodes its own index, so the paths are
\* pairwise distinct for every count; for up to 10^4 URLs (indices that fit the
\* 4-digit field) each path is lexically greater than every earlier one.
C6_PlanOrder ==
    /\ planCount >= 1 => NameIndex(planPath.name) = planCount - 1
    /\ (planCount >= 2 /\ planCount <= 10 ^ PadWidth) => PathLess(planMaxPath, planPath)

C6_Witness ==
    /\ planCount = 10 ^ PadWidth
    /\ planPath.name = SegmentPrefix \o <<57, 57, 57, 57>> \o SegmentSuffix
    /\ planMaxPath.name = SegmentPrefix \o <<57, 57, 57, 56>> \o SegmentSuffix

\* C7: the manifest handed to the concatenate process has one line per resolved
\* segment, and line i names the file the i-th segment URL is downloaded to.
C7_ManifestOrder ==
    pc = "merge_concat" =>
        /\ Len(fs.manifest.lines) = Len(segment_urls)
        /\ \A i \in 1..Len(segment_urls) :
              LET p == SegmentPath(SegmentsDir(temp_directory), i - 1) IN
              /\ HasKey(download_map, p)
              /\ DictGet(download_map, p) = segment_urls[i]
              /\ NameIndex(p.name) = i - 1
              /\ fs.manifest.lines[i] = [directive |-> "file", quoted |-> AbsPath(p)]

C7_Witness ==
    /\ pc = "merge_concat"
    /\ Len(segment_urls) = 2 /\ segment_urls[1] = segment_urls[2]
    /\ completed = <<2, 1>>
    /\ Len(fs.manifest.lines) = 2

\* C8: once _merge_and_convert_segments has returned, True or False, the
\* manifest file does not exist.
C8_ManifestGone ==
    mergeRet \in {"True", "False"} => ~fs.manifest.exists

C8_Witness ==
    /\ pc = "cleanup" /\ mergeRet = "False" /\ concatExit = "nonzero"
    /\ ~fs.manifest.exists

\* C9: when a stage has failed and the workspace removal then fails too, the
\* caller gets the earlier failure.
C9_Original ==
    (Done /\ exc # None /\ temp_directory # None) => result = exc

\* the stage an exception delivered to the caller identifies; the RuntimeError
\* of line 162 ("video merge and conversion failed") names both
StageNamedBy(r) == CASE r = "RuntimeError" -> "concat_or_remux"
                     [] r \in {"RecursionError", "LoadError", "ValueError"} -> "resolve"
                     [] r = "DownloadError" -> "download"
                     [] OTHER -> "other"

\* C10: a non-zero exit of the concatenate process reaches the caller as an
\* error that identifies the concatenate stage, a non-zero exit of the remux
\* process as one that identifies the remux stage.
C10_Original ==
    (Done /\ result = exc) =>
        /\ concatExit = "nonzero" => StageNamedBy(result) = "concat"
        /\ remuxExit = "nonzero" => StageNamedBy(result) = "remux"

\* C11: download_video returns normally only after prepare, resolve, download,
\* concatenate, remux and cleanup were started in that order, each after the
\* one before it succeeded; the remux process is started only after the
\* concatenate process has exited with status zero.
C11_SuccessOrder ==
    /\ result = "returned" =>
          /\ trace = <<"prepare", "resolve", "download", "concat", "remux", "cleanup">>
          /\ rState = "ok" /\ concatExit = "0" /\ remuxExit = "0" /\ mergeRet = "True"
          /\ failedAt = None
    /\ InTrace("remux") => concatExit = "0"
    /\ \A k \in 1..(Len(trace) - 1) : StageRank(trace[k]) < StageRank(trace[k + 1])

C11_Witness ==
    /\ Done /\ result = "returned" /\ Len(segment_urls) = 2
    /\ fs.output = "complete"

\* C12: at every master playlist the variant followed has a bandwidth no other
\* variant exceeds and no earlier variant equals, and the URL loaded next is
\* that variant's.
C12_MaxBandwidthFirst ==
    /\ \A k \in 1..Len(followed) :
          LET j == followed[k] IN
          /\ j \in 1..Len(bandwidths)
          /\ \A i \in 1..Len(bandwidths) : bandwidths[i] <= bandwidths[j]
          /\ \A i \in 1..(j - 1) : bandwidths[i] < bandwidths[j]
    /\ followed # <<>> => m3u8_url.file.var = followed[Len(followed)]

C12_Witness ==
    /\ entry = "_extract_segment_urls"
    /\ bandwidths = <<2, 1, 2>>
    /\ Len(followed) = 2 /\ followed[2] = 1 /\ m3u8_url.file = PlFile(2, 1)

\* C13: a resolution that ends at a media playlist returns one URL per segment,
\* in document order: an absolute reference unchanged, a relative one placed in
\* the directory of the playlist.
C13_SegmentUrls ==
    rState = "ok" =>
        /\ Len(segment_urls) = Len(segRefs)
        /\ \A i \in 1..Len(segRefs) :
              /\ segment_urls[i].file = segRefs[i].file
              /\ segment_urls[i].dir = IF segRefs[i].abs THEN segRefs[i].dir ELSE EntryUrl.dir

C13_Witness ==
    /\ entry = "_extract_segment_urls"
    /\ rState = "ok" /\ chainLen = 1
    /\ segRefs = <<Ref(FALSE, 0, SegFile(2)), Ref(TRUE, 2, SegFile(1))>>
    /\ segment_urls = <<Url(1, SegFile(2)), Url(2, SegFile(1))>>

\* C15: the resolver never loads more than max_depth playlists, on a cycle of
\* masters too, and every call ends with the URLs or with an error.
C15_Terminates ==
    /\ [](fetched <= max_depth /\ current_depth <= max_depth)
    /\ <>(rState \in {"ok", "error"})

C15_Witness ==
    /\ entry = "_extract_segment_urls"
    /\ terminal = "cycle" /\ chainLen = 1 /\ max_depth = DefaultMaxDepth
    /\ rState = "error" /\ rError = "RecursionError" /\ fetched = DefaultMaxDepth

MergePcs == {"merge_manifest", "merge_concat", "merge_remux", "merge_finally"}

\* C16: when _merge_and_convert_segments has returned True the intermediate
\* container exists; no step of it changes the segment files, and the
\* intermediate container goes away only in the cleanup step of download_video.
C16_IntermediateKept ==
    /\ []((pc = "cleanup" /\ mergeRet = "True") => fs.merged)
    /\ [][(pc \in MergePcs) => (fs'.seg_files = fs.seg_files)]_vars
    /\ [][(fs.merged /\ ~fs'.merged) => pc = "cleanup"]_vars

C16_Witness ==
    /\ pc = "cleanup" /\ mergeRet = "True" /\ fs.merged /\ ~fs.manifest.exists
    /\ Cardinality(fs.seg_files) = 2

\* the caller named a directory that existed and held files of its own
GivenWithFiles == temp_directory_arg = "given" /\ pre_fs.root /\ pre_fs.foreign

Active(o) == ops[o].pc \in {"prepared", "planned"}

\* C14 as stated: two calls made without temp_directory that are running at
\* the same time have different workspace roots and no segment path in common.
C14_Original ==
    (Active(1) /\ Active(2)) =>
        (ops[1].root # ops[2].root /\ ops[1].paths \cap ops[2].paths = {})

\* C18 as stated: after json saves in append mode only, starting from no file,
\* the file holds every record of every call, in call order.
C18_Original == (appendOnly /\ jsonFile.exists) => jsonFile.recs = savedJson

\* C19: a csv file that has rows starts with the header row and has no other
\* header row, and a csv save always leaves the file with its header.
C19_OneHeaderFirst ==
    /\ csvFile.rows # <<>> =>
          /\ csvFile.rows[1] = HeaderRow(<<"k">>)
          /\ \A i \in 2..Len(csvFile.rows) : csvFile.rows[i].kind = "record"
    /\ lastCall.format = "csv" =>
          /\ csvFile.exists
          /\ Len(csvFile.rows) >= 1 + lastCall.count

C19_Witness ==
    /\ lastCall.format = "csv" /\ lastCall.mode = "a"
    /\ Len(csvFile.rows) = 4
    /\ csvFile.rows[1].kind = "header"
    /\ csvFile.rows[4].kind = "record"

====
